---- MODULE Spec2Model ----
(***************************************************************************)
(* A model of carapace-shlex (shlex.go): the rune classifier, the          *)
(* Tokenizer state machine (scanStream), the comment-filtering Lexer,      *)
(* Split, and the Tokens views Strings and CurrentPipeline.                *)
(*                                                                         *)
(* A string is a sequence of code points; a code point is written as a     *)
(* one-character TLA+ string, and NUL stands for the code point 0 that     *)
(* bufio.Reader.ReadRune returns together with io.EOF.                     *)
(***************************************************************************)
EXTENDS Integers, Sequences, FiniteSets, TLC

VARIABLES input, tokenizer, tokens, emitted, lastCall, pc, err, current, strs,
          words, held, splits, tokenizers

\* The state of one Split call and of what is done with its result.
mainVars ==
    <<input, tokenizer, tokens, emitted, lastCall, pc, err, current, strs,
      words, held>>

\* The state of two Split calls running side by side.
pairVars == <<splits, tokenizers>>

vars == <<mainVars, pairVars>>

\* ---------------------------------------------------------------- bounds
MaxLen == 4

MaxQuoted == 3

MaxJoinLen == 4

MaxPairLen == 2

\* ------------------------------------------------------------ code points
NUL == "NUL"

spaceRunes == {" ", "\t", "\r", "\n"}

escapingQuoteRunes == {"\""}

nonEscapingQuoteRunes == {"'"}

escapeRunes == {"\\"}

commentRunes == {"#"}

pipelineRunes == {"|", "&", ";"}

\* The code points the inputs are drawn from: two ordinary characters and
\* members of every rune class.
Alphabet == {"a", "b", " ", "\n", "\"", "'", "\\", "#", "|", "&"}

\* ClassifyRune with the line feed missing from spaceRunes.
ClassifyRune_NoLineFeed(runeVal) ==
    CASE runeVal \in (spaceRunes \ {"\n"}) -> "spaceRuneClass"
      [] runeVal \in escapingQuoteRunes -> "escapingQuoteRuneClass"
      [] runeVal \in nonEscapingQuoteRunes -> "nonEscapingQuoteRuneClass"
      [] runeVal \in escapeRunes -> "escapeRuneClass"
      [] runeVal \in commentRunes -> "commentRuneClass"
      [] runeVal \in pipelineRunes -> "pipelineRuneClass"
      [] OTHER -> "unknownRuneClass"

\* ClassifyRune: the map lookup, unmapped runes give unknownRuneClass.
ClassifyRune(runeVal) ==
    CASE runeVal \in spaceRunes -> "spaceRuneClass"
      [] runeVal \in escapingQuoteRunes -> "escapingQuoteRuneClass"
      [] runeVal \in nonEscapingQuoteRunes -> "nonEscapingQuoteRuneClass"
      [] runeVal \in escapeRunes -> "escapeRuneClass"
      [] runeVal \in commentRunes -> "commentRuneClass"
      [] runeVal \in pipelineRunes -> "pipelineRuneClass"
      [] OTHER -> "unknownRuneClass"

\* ---------------------------------------------------------------- tokens
\* &Token{}: every field has its zero value.
EmptyToken ==
    [Type |-> "UNKNOWN_TOKEN", Value |-> <<>>, RawValue |-> <<>>,
     Index |-> 0, State |-> "START_STATE"]

add(token, r) == [token EXCEPT !.Value = Append(@, r)]

removeLastRaw(token) ==
    [token EXCEPT !.RawValue = SubSeq(@, 1, Len(@) - 1)]

\* ------------------------------------------------------------- tokenizer
\* NewTokenizer: a bufio.Reader over the string (buf, read position r,
\* lastRuneSize), index 0 and the zero state START_STATE.
NewTokenizer(s) ==
    [buf |-> s, r |-> 0, lastRuneSize |-> -1, index |-> 0,
     state |-> "START_STATE"]

\* Tokenizer.ReadRune over bufio.Reader.ReadRune: at the end of the buffer
\* it returns rune 0 and io.EOF and leaves index alone.
ReadRune(t) ==
    IF t.r = Len(t.buf)
    THEN [rune |-> NUL, err |-> "EOF", t |-> [t EXCEPT !.lastRuneSize = -1]]
    ELSE [rune |-> t.buf[t.r + 1], err |-> "nil",
          t |-> [t EXCEPT !.r = @ + 1, !.lastRuneSize = 1, !.index = @ + 1]]

\* UnreadRune over a reader that also steps back after a read that met the
\* end of the input.
UnreadRune_AfterEOF(t) ==
    IF t.r = 0
    THEN t
    ELSE [t EXCEPT !.r = @ - 1, !.lastRuneSize = -1, !.index = @ - 1]

\* UnreadRune that steps the reader back but not the index.
UnreadRune_KeepsIndex(t) ==
    IF t.lastRuneSize < 0
    THEN t
    ELSE [t EXCEPT !.r = @ - 1, !.lastRuneSize = -1]

\* Tokenizer.UnreadRune over bufio.Reader.UnreadRune: fails (and changes
\* nothing) when the last read was not a successful ReadRune.
UnreadRune(t) ==
    IF t.lastRuneSize < 0
    THEN t
    ELSE [t EXCEPT !.r = @ - 1, !.lastRuneSize = -1, !.index = @ - 1]

\* A return statement of scanStream.
Return(sc, hasToken, e) ==
    [sc EXCEPT !.ret = TRUE, !.hasToken = hasToken, !.err = e]

\* StartState whose end-of-input branch tests only consumed > 1.
StartState_NoPreviousState(sc, nextRune, nextRuneType) ==
    LET s1 == IF nextRuneType # "spaceRuneClass"
              THEN [sc EXCEPT !.token.Index = sc.t.index - 1]
              ELSE sc
    IN CASE nextRuneType = "eofRuneClass" ->
              IF sc.consumed > 1
              THEN Return([s1 EXCEPT !.token =
                              [removeLastRaw(@) EXCEPT !.Type = "WORD_TOKEN",
                                                       !.Index = sc.t.index]],
                          TRUE, "nil")
              ELSE Return(s1, FALSE, "EOF")
         [] nextRuneType = "spaceRuneClass" ->
              [s1 EXCEPT !.token = removeLastRaw(@)]
         [] nextRuneType = "escapingQuoteRuneClass" ->
              [s1 EXCEPT !.token.Type = "WORD_TOKEN",
                         !.t.state = "QUOTING_ESCAPING_STATE"]
         [] nextRuneType = "nonEscapingQuoteRuneClass" ->
              [s1 EXCEPT !.token.Type = "WORD_TOKEN",
                         !.t.state = "QUOTING_STATE"]
         [] nextRuneType = "escapeRuneClass" ->
              [s1 EXCEPT !.token.Type = "WORD_TOKEN",
                         !.t.state = "ESCAPING_STATE"]
         [] nextRuneType = "commentRuneClass" ->
              [s1 EXCEPT !.token.Type = "COMMENT_TOKEN",
                         !.t.state = "COMMENT_STATE"]
         [] nextRuneType = "pipelineRuneClass" ->
              [s1 EXCEPT !.token = [add(@, nextRune) EXCEPT !.Type = "PIPELINE_TOKEN"],
                         !.t.state = "PIPELINE_STATE"]
         [] OTHER ->
              [s1 EXCEPT !.token = [add(@, nextRune) EXCEPT !.Type = "WORD_TOKEN"],
                         !.t.state = "IN_WORD_STATE"]

\* case START_STATE
StartState(sc, nextRune, nextRuneType) ==
    LET s1 == IF nextRuneType # "spaceRuneClass"
              THEN [sc EXCEPT !.token.Index = sc.t.index - 1]
              ELSE sc
    IN CASE nextRuneType = "eofRuneClass" ->
              IF sc.previousState = "PIPELINE_STATE" \/ sc.consumed > 1
              THEN Return([s1 EXCEPT !.token =
                              [removeLastRaw(@) EXCEPT !.Type = "WORD_TOKEN",
                                                       !.Index = sc.t.index]],
                          TRUE, "nil")
              ELSE Return(s1, FALSE, "EOF")
         [] nextRuneType = "spaceRuneClass" ->
              [s1 EXCEPT !.token = removeLastRaw(@)]
         [] nextRuneType = "escapingQuoteRuneClass" ->
              [s1 EXCEPT !.token.Type = "WORD_TOKEN",
                         !.t.state = "QUOTING_ESCAPING_STATE"]
         [] nextRuneType = "nonEscapingQuoteRuneClass" ->
              [s1 EXCEPT !.token.Type = "WORD_TOKEN",
                         !.t.state = "QUOTING_STATE"]
         [] nextRuneType = "escapeRuneClass" ->
              [s1 EXCEPT !.token.Type = "WORD_TOKEN",
                         !.t.state = "ESCAPING_STATE"]
         [] nextRuneType = "commentRuneClass" ->
              [s1 EXCEPT !.token.Type = "COMMENT_TOKEN",
                         !.t.state = "COMMENT_STATE"]
         [] nextRuneType = "pipelineRuneClass" ->
              [s1 EXCEPT !.token = [add(@, nextRune) EXCEPT !.Type = "PIPELINE_TOKEN"],
                         !.t.state = "PIPELINE_STATE"]
         [] OTHER ->
              [s1 EXCEPT !.token = [add(@, nextRune) EXCEPT !.Type = "WORD_TOKEN"],
                         !.t.state = "IN_WORD_STATE"]

\* PipelineState that finalizes the token at every rune, grouping nothing.
PipelineState_NoGrouping(sc, nextRune, nextRuneType) ==
    Return([sc EXCEPT !.token = removeLastRaw(@), !.t = UnreadRune(@)],
           TRUE, "nil")

\* case PIPELINE_STATE
PipelineState(sc, nextRune, nextRuneType) ==
    IF nextRuneType = "pipelineRuneClass"
    THEN [sc EXCEPT !.token = add(@, nextRune)]
    ELSE Return([sc EXCEPT !.token = removeLastRaw(@), !.t = UnreadRune(@)],
                TRUE, "nil")

\* InWordState in which a comment character ends the word like a delimiter.
InWordState_CommentEndsWord(sc, nextRune, nextRuneType) ==
    CASE nextRuneType \in {"pipelineRuneClass", "commentRuneClass"} ->
           Return([sc EXCEPT !.token = removeLastRaw(@), !.t = UnreadRune(@)],
                  TRUE, "nil")
      [] nextRuneType \in {"eofRuneClass", "spaceRuneClass"} ->
           Return([sc EXCEPT !.token = removeLastRaw(@), !.t = UnreadRune(@)],
                  TRUE, "nil")
      [] nextRuneType = "escapingQuoteRuneClass" ->
           [sc EXCEPT !.t.state = "QUOTING_ESCAPING_STATE"]
      [] nextRuneType = "nonEscapingQuoteRuneClass" ->
           [sc EXCEPT !.t.state = "QUOTING_STATE"]
      [] nextRuneType = "escapeRuneClass" ->
           [sc EXCEPT !.t.state = "ESCAPING_STATE"]
      [] OTHER -> [sc EXCEPT !.token = add(@, nextRune)]

\* InWordState in which an opening quote ends the word like a delimiter.
InWordState_QuoteEndsWord(sc, nextRune, nextRuneType) ==
    CASE nextRuneType \in {"pipelineRuneClass", "escapingQuoteRuneClass",
                           "nonEscapingQuoteRuneClass"} ->
           Return([sc EXCEPT !.token = removeLastRaw(@), !.t = UnreadRune(@)],
                  TRUE, "nil")
      [] nextRuneType \in {"eofRuneClass", "spaceRuneClass"} ->
           Return([sc EXCEPT !.token = removeLastRaw(@), !.t = UnreadRune(@)],
                  TRUE, "nil")
      [] nextRuneType = "escapeRuneClass" ->
           [sc EXCEPT !.t.state = "ESCAPING_STATE"]
      [] OTHER -> [sc EXCEPT !.token = add(@, nextRune)]

\* case IN_WORD_STATE
InWordState(sc, nextRune, nextRuneType) ==
    CASE nextRuneType = "pipelineRuneClass" ->
           Return([sc EXCEPT !.token = removeLastRaw(@), !.t = UnreadRune(@)],
                  TRUE, "nil")
      [] nextRuneType \in {"eofRuneClass", "spaceRuneClass"} ->
           Return([sc EXCEPT !.token = removeLastRaw(@), !.t = UnreadRune(@)],
                  TRUE, "nil")
      [] nextRuneType = "escapingQuoteRuneClass" ->
           [sc EXCEPT !.t.state = "QUOTING_ESCAPING_STATE"]
      [] nextRuneType = "nonEscapingQuoteRuneClass" ->
           [sc EXCEPT !.t.state = "QUOTING_STATE"]
      [] nextRuneType = "escapeRuneClass" ->
           [sc EXCEPT !.t.state = "ESCAPING_STATE"]
      [] OTHER -> [sc EXCEPT !.token = add(@, nextRune)]

\* EscapingState that forgets to go back to IN_WORD_STATE.
EscapingState_StaysEscaping(sc, nextRune, nextRuneType) ==
    IF nextRuneType = "eofRuneClass"
    THEN Return([sc EXCEPT !.token = removeLastRaw(@)], TRUE, "nil")
    ELSE [sc EXCEPT !.token = add(@, nextRune)]

\* EscapingState that drops the rune after the escape character.
EscapingState_DropsRune(sc, nextRune, nextRuneType) ==
    IF nextRuneType = "eofRuneClass"
    THEN Return([sc EXCEPT !.token = removeLastRaw(@)], TRUE, "nil")
    ELSE [sc EXCEPT !.t.state = "IN_WORD_STATE"]

\* case ESCAPING_STATE
EscapingState(sc, nextRune, nextRuneType) ==
    IF nextRuneType = "eofRuneClass"
    THEN Return([sc EXCEPT !.token = removeLastRaw(@)], TRUE, "nil")
    ELSE [sc EXCEPT !.t.state = "IN_WORD_STATE", !.token = add(@, nextRune)]

\* EscapingQuotedState with the error the source has commented out.
EscapingQuotedState_ErrAtEOF(sc, nextRune, nextRuneType) ==
    IF nextRuneType = "eofRuneClass"
    THEN Return([sc EXCEPT !.token = removeLastRaw(@)], TRUE,
                "EOF found after escape character")
    ELSE [sc EXCEPT !.t.state = "QUOTING_ESCAPING_STATE",
                    !.token = add(@, nextRune)]

\* EscapingQuotedState that keeps the backslash before a rune that is
\* neither a double quote nor a backslash.
EscapingQuotedState_KeepsBackslash(sc, nextRune, nextRuneType) ==
    IF nextRuneType = "eofRuneClass"
    THEN Return([sc EXCEPT !.token = removeLastRaw(@)], TRUE, "nil")
    ELSE [sc EXCEPT !.t.state = "QUOTING_ESCAPING_STATE",
                    !.token = IF nextRuneType \in {"escapingQuoteRuneClass",
                                                   "escapeRuneClass"}
                              THEN add(@, nextRune)
                              ELSE add(add(@, "\\"), nextRune)]

\* case ESCAPING_QUOTED_STATE
EscapingQuotedState(sc, nextRune, nextRuneType) ==
    IF nextRuneType = "eofRuneClass"
    THEN Return([sc EXCEPT !.token = removeLastRaw(@)], TRUE, "nil")
    ELSE [sc EXCEPT !.t.state = "QUOTING_ESCAPING_STATE",
                    !.token = add(@, nextRune)]

\* QuotingEscapingState in which a single quote closes the double quotes too.
QuotingEscapingState_AnyQuoteCloses(sc, nextRune, nextRuneType) ==
    CASE nextRuneType = "eofRuneClass" ->
           Return([sc EXCEPT !.token = removeLastRaw(@)], TRUE, "nil")
      [] nextRuneType \in {"escapingQuoteRuneClass", "nonEscapingQuoteRuneClass"} ->
           [sc EXCEPT !.t.state = "IN_WORD_STATE"]
      [] nextRuneType = "escapeRuneClass" ->
           [sc EXCEPT !.t.state = "ESCAPING_QUOTED_STATE"]
      [] OTHER -> [sc EXCEPT !.token = add(@, nextRune)]

\* case QUOTING_ESCAPING_STATE
QuotingEscapingState(sc, nextRune, nextRuneType) ==
    CASE nextRuneType = "eofRuneClass" ->
           Return([sc EXCEPT !.token = removeLastRaw(@)], TRUE, "nil")
      [] nextRuneType = "escapingQuoteRuneClass" ->
           [sc EXCEPT !.t.state = "IN_WORD_STATE"]
      [] nextRuneType = "escapeRuneClass" ->
           [sc EXCEPT !.t.state = "ESCAPING_QUOTED_STATE"]
      [] OTHER -> [sc EXCEPT !.token = add(@, nextRune)]

\* QuotingState in which a backslash is taken as an escape and dropped.
QuotingState_DropsBackslash(sc, nextRune, nextRuneType) ==
    CASE nextRuneType = "eofRuneClass" ->
           Return([sc EXCEPT !.token = removeLastRaw(@)], TRUE, "nil")
      [] nextRuneType = "nonEscapingQuoteRuneClass" ->
           [sc EXCEPT !.t.state = "IN_WORD_STATE"]
      [] nextRuneType = "escapeRuneClass" -> sc
      [] OTHER -> [sc EXCEPT !.token = add(@, nextRune)]

\* case QUOTING_STATE
QuotingState(sc, nextRune, nextRuneType) ==
    CASE nextRuneType = "eofRuneClass" ->
           Return([sc EXCEPT !.token = removeLastRaw(@)], TRUE, "nil")
      [] nextRuneType = "nonEscapingQuoteRuneClass" ->
           [sc EXCEPT !.t.state = "IN_WORD_STATE"]
      [] OTHER -> [sc EXCEPT !.token = add(@, nextRune)]

\* CommentState that ends the comment at any whitespace, not only the line
\* feed.
CommentState_EndsAtAnySpace(sc, nextRune, nextRuneType) ==
    CASE nextRuneType = "eofRuneClass" -> Return(sc, TRUE, "nil")
      [] nextRuneType = "spaceRuneClass" ->
           Return([sc EXCEPT !.token = removeLastRaw(@),
                             !.t.state = "START_STATE"], TRUE, "nil")
      [] OTHER -> [sc EXCEPT !.token = add(@, nextRune)]

\* case COMMENT_STATE: the end-of-input branch returns the token as it is,
\* with the rune appended to RawValue at the top of the loop still in it.
CommentState(sc, nextRune, nextRuneType) ==
    CASE nextRuneType = "eofRuneClass" -> Return(sc, TRUE, "nil")
      [] nextRuneType = "spaceRuneClass" ->
           IF nextRune = "\n"
           THEN Return([sc EXCEPT !.token = removeLastRaw(@),
                                  !.t.state = "START_STATE"], TRUE, "nil")
           ELSE [sc EXCEPT !.token = add(@, nextRune)]
      [] OTHER -> [sc EXCEPT !.token = add(@, nextRune)]

\* One iteration of the for loop of scanStream.
ScanIteration(sc) ==
    LET rr == ReadRune(sc.t)
        s1 == [sc EXCEPT !.t = rr.t,
                         !.token.RawValue = Append(@, rr.rune),
                         !.consumed = @ + 1]
        nextRune == rr.rune
        nextRuneType == IF rr.err = "EOF" THEN "eofRuneClass"
                        ELSE ClassifyRune(rr.rune)
    IN IF rr.err \notin {"nil", "EOF"}
       THEN Return(s1, FALSE, rr.err)
       ELSE CASE s1.t.state = "START_STATE" ->
                   StartState(s1, nextRune, nextRuneType)
              [] s1.t.state = "PIPELINE_STATE" ->
                   PipelineState(s1, nextRune, nextRuneType)
              [] s1.t.state = "IN_WORD_STATE" ->
                   InWordState(s1, nextRune, nextRuneType)
              [] s1.t.state = "ESCAPING_STATE" ->
                   EscapingState(s1, nextRune, nextRuneType)
              [] s1.t.state = "ESCAPING_QUOTED_STATE" ->
                   EscapingQuotedState(s1, nextRune, nextRuneType)
              [] s1.t.state = "QUOTING_ESCAPING_STATE" ->
                   QuotingEscapingState(s1, nextRune, nextRuneType)
              [] s1.t.state = "QUOTING_STATE" ->
                   QuotingState(s1, nextRune, nextRuneType)
              [] s1.t.state = "COMMENT_STATE" ->
                   CommentState(s1, nextRune, nextRuneType)
              [] OTHER -> Return(s1, FALSE, "unexpected state")

RECURSIVE ScanLoop(_)
ScanLoop(sc) ==
    CHOOSE r \in {IF n.ret THEN n ELSE ScanLoop(n) : n \in {ScanIteration(sc)}} :
        TRUE

\* scanStream: previousState := t.state; t.state = START_STATE; loop.
scanStream(t) ==
    ScanLoop([t |-> [t EXCEPT !.state = "START_STATE"],
              token |-> EmptyToken,
              previousState |-> t.state,
              consumed |-> 0,
              ret |-> FALSE, hasToken |-> FALSE, err |-> "nil"])

\* Tokenizer.Next that gives the token the state the machine was in before
\* the call.
TokenizerNext_PreviousState(t) ==
    LET s == scanStream(t)
    IN [t |-> s.t, hasToken |-> s.hasToken, err |-> s.err,
        token |-> IF s.err = "nil"
                  THEN [s.token EXCEPT !.State = t.state]
                  ELSE s.token]

\* Tokenizer.Next that leaves the token's State at its zero value.
TokenizerNext_NoState(t) ==
    LET s == scanStream(t)
    IN [t |-> s.t, hasToken |-> s.hasToken, err |-> s.err, token |-> s.token]

\* Tokenizer.Next: the token gets the machine's state when err is nil.
TokenizerNext(t) ==
    LET s == scanStream(t)
    IN [t |-> s.t, hasToken |-> s.hasToken, err |-> s.err,
        token |-> IF s.err = "nil"
                  THEN [s.token EXCEPT !.State = s.t.state]
                  ELSE s.token]

\* LexerCase that returns Comment tokens instead of skipping them.
LexerCase_ReturnComment(type) ==
    CASE type \in {"WORD_TOKEN", "PIPELINE_TOKEN", "COMMENT_TOKEN"} -> "return"
      [] OTHER -> "unknown token type"

\* The switch on token.Type in Lexer.Next.
LexerCase(type) ==
    CASE type \in {"WORD_TOKEN", "PIPELINE_TOKEN"} -> "return"
      [] type = "COMMENT_TOKEN" -> "skip"
      [] OTHER -> "unknown token type"

\* The loop of Split over Lexer.Next, acc being the local tokens.
RECURSIVE SplitLoop(_, _)
SplitLoop(t, acc) ==
    LET n == TokenizerNext(t)
    IN IF n.err # "nil"
       THEN IF n.err = "EOF"
            THEN [tokens |-> acc, err |-> "nil"]
            ELSE [tokens |-> <<>>, err |-> n.err]
       ELSE CASE LexerCase(n.token.Type) = "return" ->
                   SplitLoop(n.t, Append(acc, n.token))
              [] LexerCase(n.token.Type) = "skip" -> SplitLoop(n.t, acc)
              [] OTHER -> [tokens |-> <<>>, err |-> LexerCase(n.token.Type)]

\* Split(s): a new Lexer over s, run to the end of the input.
Split(s) == SplitLoop(NewTokenizer(s), <<>>)

\* ------------------------------------------------------------ token views
RECURSIVE Strings(_)
Strings(t) ==
    IF t = <<>> THEN <<>>
    ELSE <<Head(t).Value>> \o Strings(Tail(t))

\* PipelineLoop that drops the operators and never resets the accumulator.
RECURSIVE PipelineLoop_NoReset(_, _)
PipelineLoop_NoReset(t, acc) ==
    IF t = <<>> THEN acc
    ELSE IF Head(t).Type = "PIPELINE_TOKEN"
         THEN PipelineLoop_NoReset(Tail(t), acc)
         ELSE PipelineLoop_NoReset(Tail(t), Append(acc, Head(t)))

\* The range loop of CurrentPipeline, acc being the local tokens.
RECURSIVE PipelineLoop(_, _)
PipelineLoop(t, acc) ==
    IF t = <<>> THEN acc
    ELSE IF Head(t).Type = "PIPELINE_TOKEN"
         THEN PipelineLoop(Tail(t), <<>>)
         ELSE PipelineLoop(Tail(t), Append(acc, Head(t)))

CurrentPipeline(t) == PipelineLoop(t, <<>>)

\* ResultArray in which CurrentPipeline hands back a slice of the receiver
\* when there is no operator to cut at.
ResultArray_Reslice(t) ==
    IF \A i \in 1..Len(t) : t[i].Type # "PIPELINE_TOKEN"
    THEN "receiver" ELSE "fresh"

\* The backing array of the slice CurrentPipeline returns: the loop starts
\* from make([]Token, 0) and appends copies of the tokens, so it is never
\* the receiver's array.
ResultArray(t) == "fresh"

\* words(): only the Word tokens.
IsWordToken(tok) == tok.Type = "WORD_TOKEN"

Words(t) == SelectSeq(t, IsWordToken)

\* ------------------------------------------------------------------- join
\* A word is quoted or escaped only if it holds a character the classifier
\* takes for a space, quote, escape, comment or pipeline character.
NeedsQuoting(w) ==
    \E i \in 1..Len(w) : ClassifyRune(w[i]) # "unknownRuneClass"

\* The word with a backslash before each of its characters of the set S.
RECURSIVE EscapeRunes(_, _)
EscapeRunes(w, S) ==
    IF w = <<>> THEN <<>>
    ELSE (IF Head(w) \in S THEN <<"\\", Head(w)>> ELSE <<Head(w)>>)
            \o EscapeRunes(Tail(w), S)

\* The two ways of making a word shell-safe: a backslash before every
\* special character, or double quotes around the word with a backslash
\* before every double quote and backslash in it.
JoinStyles == {"escape", "quote"}

JoinWord(w, style) ==
    IF ~NeedsQuoting(w) THEN w
    ELSE IF style = "escape"
         THEN EscapeRunes(w, {c \in {w[i] : i \in 1..Len(w)} :
                                 ClassifyRune(c) # "unknownRuneClass"})
         ELSE <<"\"">> \o EscapeRunes(w, escapingQuoteRunes \cup escapeRunes)
                 \o <<"\"">>

\* join(words): the shell-safe words with single spaces between them.
RECURSIVE Join(_, _)
Join(ws, style) ==
    IF ws = <<>> THEN <<>>
    ELSE IF Len(ws) = 1 THEN JoinWord(Head(ws), style)
         ELSE JoinWord(Head(ws), style) \o <<" ">> \o Join(Tail(ws), style)

\* ------------------------------------------------------------ the inputs
SeqsUpTo(n, S) == UNION {[1..k -> S] : k \in 0..n}

\* Quoted(w): the string "w" in double quotes.
Quoted(w) == <<"\"">> \o w \o <<"\"">>

QuotedInputs ==
    {Quoted(w) : w \in SeqsUpTo(MaxQuoted, Alphabet \ {"\"", "\\"})}

\* Inputs of the README, of shlex_test.go and of the documented examples.
Scenarios ==
    { <<"a", " ", "|", "|", " ", "b">>,
      <<"a", " ", "|", " ", "b", " ", "|", " ", "c">>,
      <<"b", "e", "f", "o", "r", "e", "|">>,
      <<"|", "a", "f", "t", "e", "r">>,
      <<"a", " ", "#", " ", "c", "o", "m", "\n", "b">>,
      <<"a", "\t", "b", "\r", ";", ";", " ">>,
      <<"\"", "a", " ", "b", "\"", "'", "c", "\\", "'", "\\", "#", "#", " ", ";">>,
      <<"\"", "a", "b", "c">>,
      <<"s", "e", "v", "e", "n", "#", "e", "i", "g", "h", "t">>,
      <<"'", "t", "w", "e", "l", "v", "e", "\\", "'">>,
      <<"\"", "f", "i", "v", "e", " ", "\\", "\"", "s", "i", "x", "\\", "\"", "\"">> }

\* SingleQuoted(w): the string 'w' in single quotes.
SingleQuoted(w) == <<"'">> \o w \o <<"'">>

SingleQuotedInputs ==
    {SingleQuoted(w) : w \in SeqsUpTo(MaxQuoted, Alphabet \ {"'"})}

Inputs ==
    SeqsUpTo(MaxLen, Alphabet) \cup QuotedInputs \cup SingleQuotedInputs
        \cup Scenarios

\* The code points the words given to join are drawn from.
JoinAlphabet == {"a", " ", "\"", "'", "\\", "#"}

\* The words of a string in which SEP ends one word and starts the next.
RECURSIVE SepFields(_, _, _)
SepFields(s, cur, acc) ==
    IF s = <<>> THEN Append(acc, cur)
    ELSE IF Head(s) = "SEP"
         THEN SepFields(Tail(s), <<>>, Append(acc, cur))
         ELSE SepFields(Tail(s), Append(cur, Head(s)), acc)

\* The word sequences given to join: no word at all, and every sequence of
\* words, empty words included, of at most MaxJoinLen characters and
\* separators together.
WordSeqs ==
    {<<>>} \cup {SepFields(s, <<>>, <<>>) :
                    s \in SeqsUpTo(MaxJoinLen, JoinAlphabet \cup {"SEP"})}

\* ------------------------------------------------------------ the machine
NoView == [called |-> FALSE, val |-> <<>>]

\* Split(s) up to its loop: l := NewLexer(strings.NewReader(s)), tokens empty.
\* What the caller holds of the sequences the views returned to it.
NothingHeld ==
    [current |-> [state |-> "none", array |-> "none", val |-> <<>>],
     strings |-> [state |-> "none", val |-> <<>>]]

NoWords == [given |-> FALSE, val |-> <<>>, style |-> "none"]

\* Either Split(s) up to its loop, l := NewLexer(strings.NewReader(s)) with
\* tokens empty, or a sequence of words about to be joined and split.
Init ==
    /\ \/ /\ pc = "split"
          /\ input \in Inputs
          /\ words = NoWords
       \/ /\ pc = "join"
          /\ input = <<>>
          /\ words \in {[given |-> TRUE, val |-> ws, style |-> "none"] :
                           ws \in WordSeqs}
    /\ tokenizer = NewTokenizer(input)
    /\ tokens = <<>>
    /\ emitted = <<>>
    /\ lastCall = [made |-> FALSE, from |-> 0, previousState |-> "START_STATE",
                   hasToken |-> FALSE, err |-> "nil"]
    /\ err = "nil"
    /\ current = NoView
    /\ strs = NoView
    /\ held = NothingHeld
    /\ splits = <<>>
    /\ tokenizers = <<>>

Call(n) ==
    [made |-> TRUE, from |-> tokenizer.index, previousState |-> tokenizer.state,
     hasToken |-> n.hasToken, err |-> n.err]

\* Split(Join(words)): the words are joined, in either style, and Split
\* starts on the joined string.
CallJoin ==
    /\ pc = "join"
    /\ \E style \in JoinStyles :
          /\ words' = [words EXCEPT !.style = style]
          /\ input' = Join(words.val, style)
          /\ tokenizer' = NewTokenizer(input')
    /\ pc' = "split"
    /\ UNCHANGED <<tokens, emitted, lastCall, err, current, strs, held>>
    /\ UNCHANGED pairVars

\* One Tokenizer.Next call of Lexer.Next that returns a Word or
\* PipelineOperator token: Lexer.Next returns it and Split appends it.
LexerToken ==
    /\ pc = "split"
    /\ LET n == TokenizerNext(tokenizer)
       IN /\ n.err = "nil"
          /\ LexerCase(n.token.Type) = "return"
          /\ tokenizer' = n.t
          /\ tokens' = Append(tokens, n.token)
          /\ emitted' = Append(emitted, n.token)
          /\ lastCall' = Call(n)
    /\ UNCHANGED <<input, pc, err, current, strs, words, held>>
    /\ UNCHANGED pairVars

\* One Tokenizer.Next call of Lexer.Next that returns a Comment token: the
\* loop of Lexer.Next goes round again.
LexerSkipComment ==
    /\ pc = "split"
    /\ LET n == TokenizerNext(tokenizer)
       IN /\ n.err = "nil"
          /\ LexerCase(n.token.Type) = "skip"
          /\ tokenizer' = n.t
          /\ emitted' = Append(emitted, n.token)
          /\ lastCall' = Call(n)
    /\ UNCHANGED <<input, tokens, pc, err, current, strs, words, held>>
    /\ UNCHANGED pairVars

\* Lexer.Next returns an error (io.EOF, a read failure, or the unknown token
\* type failure): Split returns the tokens with a nil error on io.EOF, and
\* nil with the error otherwise.
SplitReturn ==
    /\ pc = "split"
    /\ LET n == TokenizerNext(tokenizer)
           e == IF n.err # "nil" THEN n.err ELSE LexerCase(n.token.Type)
       IN /\ e \notin {"return", "skip"}
          /\ tokenizer' = n.t
          /\ emitted' = IF n.err = "nil" THEN Append(emitted, n.token) ELSE emitted
          /\ lastCall' = Call(n)
          /\ err' = IF e = "EOF" THEN "nil" ELSE e
          /\ tokens' = IF e = "EOF" THEN tokens ELSE <<>>
    /\ pc' = "done"
    /\ UNCHANGED <<input, current, strs, words, held>>
    /\ UNCHANGED pairVars

\* tokens.CurrentPipeline() on the result of Split.
CallCurrentPipeline ==
    /\ pc = "done"
    /\ err = "nil"
    /\ ~current.called
    /\ current' = [called |-> TRUE, val |-> CurrentPipeline(tokens)]
    /\ held' = [held EXCEPT !.current = [state |-> "returned",
                                         array |-> ResultArray(tokens),
                                         val |-> CurrentPipeline(tokens)]]
    /\ UNCHANGED <<input, tokenizer, tokens, emitted, lastCall, pc, err, strs,
                   words>>
    /\ UNCHANGED pairVars

\* tokens.Strings() on the result of Split.
CallStrings ==
    /\ pc = "done"
    /\ err = "nil"
    /\ ~strs.called
    /\ strs' = [called |-> TRUE, val |-> Strings(tokens)]
    /\ held' = [held EXCEPT !.strings = [state |-> "returned",
                                         val |-> Strings(tokens)]]
    /\ UNCHANGED <<input, tokenizer, tokens, emitted, lastCall, pc, err, current,
                   words>>
    /\ UNCHANGED pairVars

\* The caller changes the sequence CurrentPipeline returned: it overwrites
\* the first token, if there is one, and appends a token. A write to a
\* slice goes to its backing array, so it shows in the receiver when the
\* two share one; an append past the receiver's length does not.
ChangeCurrent ==
    /\ pc = "done"
    /\ held.current.state = "returned"
    /\ LET v == held.current.val
           w == IF v = <<>> THEN v ELSE [v EXCEPT ![1] = EmptyToken]
       IN /\ held' = [held EXCEPT !.current.state = "changed",
                                  !.current.val = Append(w, EmptyToken)]
          /\ tokens' = IF /\ held.current.array = "receiver"
                            /\ v # <<>>
                       THEN [tokens EXCEPT ![Len(tokens) - Len(v) + 1] = EmptyToken]
                       ELSE tokens
    /\ UNCHANGED <<input, tokenizer, emitted, lastCall, pc, err, current, strs,
                   words>>
    /\ UNCHANGED pairVars

\* The caller changes the strings Strings returned in the same way.
ChangeStrings ==
    /\ pc = "done"
    /\ held.strings.state = "returned"
    /\ LET v == held.strings.val
           w == IF v = <<>> THEN v ELSE [v EXCEPT ![1] = <<>>]
       IN held' = [held EXCEPT !.strings.state = "changed",
                               !.strings.val = Append(w, <<>>)]
    /\ UNCHANGED <<input, tokenizer, tokens, emitted, lastCall, pc, err, current,
                   strs, words>>
    /\ UNCHANGED pairVars

Next ==
    \/ CallJoin
    \/ LexerToken
    \/ LexerSkipComment
    \/ SplitReturn
    \/ CallCurrentPipeline
    \/ CallStrings
    \/ ChangeCurrent
    \/ ChangeStrings

Spec == Init /\ [][Next]_vars

\* ------------------------------------------------- a Split call that runs on
MaxLiveLen == 3

LiveAlphabet == Alphabet \ {"b", "&"}

LiveInputs ==
    SeqsUpTo(MaxLiveLen, LiveAlphabet) \cup {s \in Scenarios : Len(s) <= 2 * MaxLiveLen}

\* A call Split(s) that has made no Tokenizer.Next call yet.
InitLive ==
    /\ input \in LiveInputs
    /\ pc = "split"
    /\ words = NoWords
    /\ tokenizer = NewTokenizer(input)
    /\ tokens = <<>>
    /\ emitted = <<>>
    /\ lastCall = [made |-> FALSE, from |-> 0, previousState |-> "START_STATE",
                   hasToken |-> FALSE, err |-> "nil"]
    /\ err = "nil"
    /\ current = NoView
    /\ strs = NoView
    /\ held = NothingHeld
    /\ splits = <<>>
    /\ tokenizers = <<>>

\* The loop of Split: one Tokenizer.Next call after the other.
NextLive ==
    \/ LexerToken
    \/ LexerSkipComment
    \/ SplitReturn

\* Split is sequential code: while it has not returned, its next
\* Tokenizer.Next call is made.
SpecLive == InitLive /\ [][NextLive]_vars /\ WF_vars(NextLive)

\* ------------------------------------------------- two Split calls at once
Procs == {1, 2}

\* The code points the inputs of the two calls are drawn from.
PairAlphabet == {"a", " ", "|", "#", "\""}

PairInputs == SeqsUpTo(MaxPairLen, PairAlphabet)

\* Owner in which NewTokenizer hands every caller one and the same
\* Tokenizer.
Owner_Shared(p) == 1

\* The Tokenizer a Split call works on: NewTokenizer returns the address of
\* a Tokenizer allocated in that call, so every call has its own.
Owner(p) == p

\* Two calls Split(s1), Split(s2), neither started yet.
InitPair ==
    /\ splits \in [Procs -> {[input |-> s, pc |-> "new", tokens |-> <<>>,
                               err |-> "nil"] : s \in PairInputs}]
    /\ tokenizers = [p \in Procs |-> NewTokenizer(<<>>)]
    /\ pc = "idle"
    /\ input = <<>>
    /\ words = NoWords
    /\ tokenizer = NewTokenizer(<<>>)
    /\ tokens = <<>>
    /\ emitted = <<>>
    /\ lastCall = [made |-> FALSE, from |-> 0, previousState |-> "START_STATE",
                   hasToken |-> FALSE, err |-> "nil"]
    /\ err = "nil"
    /\ current = NoView
    /\ strs = NoView
    /\ held = NothingHeld

\* l := NewLexer(strings.NewReader(s)); tokens := make([]Token, 0)
PairNewLexer(p) ==
    /\ splits[p].pc = "new"
    /\ tokenizers' = [tokenizers EXCEPT ![Owner(p)] = NewTokenizer(splits[p].input)]
    /\ splits' = [splits EXCEPT ![p].pc = "split"]
    /\ UNCHANGED mainVars

\* A Tokenizer.Next call of call p that returns a Word or PipelineOperator
\* token, which Split appends.
PairLexerToken(p) ==
    /\ splits[p].pc = "split"
    /\ LET n == TokenizerNext(tokenizers[Owner(p)])
       IN /\ n.err = "nil"
          /\ LexerCase(n.token.Type) = "return"
          /\ tokenizers' = [tokenizers EXCEPT ![Owner(p)] = n.t]
          /\ splits' = [splits EXCEPT ![p].tokens = Append(@, n.token)]
    /\ UNCHANGED mainVars

\* A Tokenizer.Next call of call p that returns a Comment token.
PairLexerSkipComment(p) ==
    /\ splits[p].pc = "split"
    /\ LET n == TokenizerNext(tokenizers[Owner(p)])
       IN /\ n.err = "nil"
          /\ LexerCase(n.token.Type) = "skip"
          /\ tokenizers' = [tokenizers EXCEPT ![Owner(p)] = n.t]
    /\ UNCHANGED <<splits, mainVars>>

\* Lexer.Next of call p returns an error and Split returns.
PairSplitReturn(p) ==
    /\ splits[p].pc = "split"
    /\ LET n == TokenizerNext(tokenizers[Owner(p)])
           e == IF n.err # "nil" THEN n.err ELSE LexerCase(n.token.Type)
       IN /\ e \notin {"return", "skip"}
          /\ tokenizers' = [tokenizers EXCEPT ![Owner(p)] = n.t]
          /\ splits' = [splits EXCEPT
                           ![p].pc = "done",
                           ![p].err = IF e = "EOF" THEN "nil" ELSE e,
                           ![p].tokens = IF e = "EOF" THEN @ ELSE <<>>]
    /\ UNCHANGED mainVars

NextPair ==
    \E p \in Procs :
        \/ PairNewLexer(p)
        \/ PairLexerToken(p)
        \/ PairLexerSkipComment(p)
        \/ PairSplitReturn(p)

SpecPair == InitPair /\ [][NextPair]_vars

\* ------------------------------------------------------------ properties
Last(sq) == sq[Len(sq)]

AllSpace(sq) == \A i \in 1..Len(sq) : sq[i] \in spaceRunes

\* The token the Tokenizer emits at the cursor for an empty word.
IsSynthetic(tok) == tok.Value = <<>> /\ tok.RawValue = <<>>

\* C1: Split returns a nil error and a token list for every input string,
\* unterminated quotes, a trailing backslash and an incomplete escape inside
\* double quotes included; no Tokenizer.Next call fails with anything but
\* the end-of-input signal.
C1_SplitNeverFails ==
    /\ lastCall.err \in {"nil", "EOF"}
    /\ pc = "done" => err = "nil"

C1_Witness ==
    /\ pc = "done"
    /\ tokens # <<>>
    /\ Last(tokens).State = "ESCAPING_QUOTED_STATE"

\* C2: every token Lexer.Next hands to Split is a Word or a PipelineOperator
\* token; the Tokenizer never returns a token of kind Unknown or Space, so
\* the unknown token type failure of Lexer.Next does not happen.
C2_LexerKinds ==
    /\ \A i \in 1..Len(tokens) :
          tokens[i].Type \in {"WORD_TOKEN", "PIPELINE_TOKEN"}
    /\ \A i \in 1..Len(emitted) :
          emitted[i].Type \in {"WORD_TOKEN", "PIPELINE_TOKEN", "COMMENT_TOKEN"}
    /\ err # "unknown token type"

C2_Witness ==
    /\ pc = "done"
    /\ tokens # <<>>
    /\ \E i \in 1..Len(emitted) : emitted[i].Type = "COMMENT_TOKEN"

\* s split on runs of whitespace, empty strings removed.
RECURSIVE WsFields(_, _, _)
WsFields(s, cur, acc) ==
    IF s = <<>>
    THEN IF cur = <<>> THEN acc ELSE Append(acc, cur)
    ELSE IF Head(s) \in spaceRunes
         THEN WsFields(Tail(s), <<>>, IF cur = <<>> THEN acc ELSE Append(acc, cur))
         ELSE WsFields(Tail(s), Append(cur, Head(s)), acc)

WsSplit(s) == WsFields(s, <<>>, <<>>)

\* No quote, escape or pipeline-operator character in s.
Plain(s) ==
    \A i \in 1..Len(s) :
        s[i] \notin (escapingQuoteRunes \cup nonEscapingQuoteRunes
                        \cup escapeRunes \cup pipelineRunes)

\* No comment character at the start of a word of s.
NoCommentStart(s) ==
    \A i \in 1..Len(s) :
        s[i] \in commentRunes => (i > 1 /\ s[i - 1] \notin spaceRunes)

\* C3 as stated: for every input with no quotes, escapes or operators the
\* values of Split are the whitespace-separated fields, with at most one
\* empty word after them.
C3_Original ==
    (strs.called /\ Plain(input)) =>
        strs.val \in {WsSplit(input), Append(WsSplit(input), <<>>)}

\* C3 amended: for every input with no quotes, escapes or operators and no
\* comment character at the start of a word, the values of Split are the
\* whitespace-separated fields, followed by one empty word exactly when the
\* input ends in whitespace.
C3_WhitespaceSplit ==
    (strs.called /\ Plain(input) /\ NoCommentStart(input)) =>
        strs.val = IF input # <<>> /\ Last(input) \in spaceRunes
                   THEN Append(WsSplit(input), <<>>)
                   ELSE WsSplit(input)

C3_Witness ==
    /\ strs.called
    /\ Plain(input)
    /\ NoCommentStart(input)
    /\ Len(WsSplit(input)) = 2
    /\ Len(strs.val) = 3

\* The input the last Tokenizer.Next call had left to read.
Rest == SubSeq(input, lastCall.from + 1, Len(input))

\* The token returned by the Tokenizer.Next call before the last one ended
\* in PipelineOperator state.
PreviousTokenPipeline ==
    LET k == IF lastCall.hasToken THEN Len(emitted) - 1 ELSE Len(emitted)
    IN k >= 1 /\ emitted[k].State = "PIPELINE_STATE"

\* C4: a Tokenizer.Next call that meets end-of-input in the Start state
\* (only whitespace was left) returns one Word token with empty value and
\* rawValue at the offset of the end of the input if and only if it
\* consumed whitespace or the previous token ended in PipelineOperator
\* state, and reports end-of-input otherwise; no other call returns such a
\* token, the call after it reports end-of-input, and an input has at most
\* one.
C4_SyntheticToken ==
    /\ (lastCall.made /\ AllSpace(Rest)) =>
          IF Len(Rest) >= 1 \/ PreviousTokenPipeline
          THEN /\ lastCall.hasToken
               /\ lastCall.err = "nil"
               /\ Last(emitted) = [Type |-> "WORD_TOKEN", Value |-> <<>>,
                                   RawValue |-> <<>>, Index |-> Len(input),
                                   State |-> "START_STATE"]
          ELSE ~lastCall.hasToken /\ lastCall.err = "EOF"
    /\ (lastCall.made /\ ~AllSpace(Rest)) =>
          lastCall.hasToken /\ ~IsSynthetic(Last(emitted))
    /\ (pc = "split" /\ emitted # <<>> /\ IsSynthetic(Last(emitted))) =>
          LET n == TokenizerNext(tokenizer)
          IN ~n.hasToken /\ n.err = "EOF"
    /\ Cardinality({i \in 1..Len(emitted) : IsSynthetic(emitted[i])}) <= 1

C4_Witness ==
    /\ pc = "done"
    /\ Len(emitted) >= 2
    /\ IsSynthetic(Last(emitted))
    /\ emitted[Len(emitted) - 1].State = "PIPELINE_STATE"
    /\ Last(input) \notin spaceRunes
\* Where a reader of shell syntax stands before a character: at the start of
\* a token, inside a bare word, inside double or single quotes, right after
\* an escape character, or (when comments are told apart) inside a comment.
NextMode(mode, ch, comments) ==
    CASE mode \in {"start", "word"} ->
           (CASE ch \in spaceRunes -> "start"
              [] ch \in pipelineRunes -> "start"
              [] ch \in escapingQuoteRunes -> "dquote"
              [] ch \in nonEscapingQuoteRunes -> "squote"
              [] ch \in escapeRunes -> "escape"
              [] ch \in commentRunes ->
                   IF comments /\ mode = "start" THEN "comment" ELSE "word"
              [] OTHER -> "word")
      [] mode = "escape" -> "word"
      [] mode = "dquote" ->
           (CASE ch \in escapingQuoteRunes -> "word"
              [] ch \in escapeRunes -> "descape"
              [] OTHER -> "dquote")
      [] mode = "descape" -> "dquote"
      [] mode = "squote" ->
           IF ch \in nonEscapingQuoteRunes THEN "word" ELSE "squote"
      [] mode = "comment" -> IF ch = "\n" THEN "start" ELSE "comment"

\* The maximal runs of consecutive pipeline-operator characters of s that
\* are outside quotes and escapes (and outside comments when comments is
\* TRUE), in order.
RECURSIVE OperatorRuns(_, _, _, _, _, _)
OperatorRuns(s, i, mode, run, acc, comments) ==
    LET flushed == IF run = <<>> THEN acc ELSE Append(acc, run)
    IN IF i > Len(s) THEN flushed
       ELSE IF mode \in {"start", "word"} /\ s[i] \in pipelineRunes
            THEN OperatorRuns(s, i + 1, "start", Append(run, s[i]), acc, comments)
            ELSE OperatorRuns(s, i + 1, NextMode(mode, s[i], comments),
                              <<>>, flushed, comments)

IsPipelineToken(tok) == tok.Type = "PIPELINE_TOKEN"

\* C5 as stated: every maximal run of pipeline-operator characters outside
\* quotes and escapes gives exactly one PipelineOperator token whose value
\* is the run.
C5_Original ==
    pc = "done" =>
        Strings(SelectSeq(emitted, IsPipelineToken))
            = OperatorRuns(input, 1, "start", <<>>, <<>>, FALSE)

\* C5 amended: every maximal run of pipeline-operator characters outside
\* quotes, escapes and comments gives exactly one PipelineOperator token
\* whose value is the run, and an operator next to a word splits it:
\* "a || b" gives a, ||, b; "before|" gives before then |; "|after" gives
\* | then after.
C5_OperatorGrouping ==
    /\ pc = "done" =>
          /\ Strings(SelectSeq(emitted, IsPipelineToken))
                = OperatorRuns(input, 1, "start", <<>>, <<>>, TRUE)
          /\ Strings(SelectSeq(tokens, IsPipelineToken))
                = OperatorRuns(input, 1, "start", <<>>, <<>>, TRUE)
    /\ (pc = "done" /\ input = <<"a", " ", "|", "|", " ", "b">>) =>
          Strings(tokens) = << <<"a">>, <<"|", "|">>, <<"b">> >>
    /\ (pc = "done" /\ input = <<"b", "e", "f", "o", "r", "e", "|">>) =>
          SubSeq(Strings(tokens), 1, 2)
              = << <<"b", "e", "f", "o", "r", "e">>, <<"|">> >>
    /\ (pc = "done" /\ input = <<"|", "a", "f", "t", "e", "r">>) =>
          Strings(tokens) = << <<"|">>, <<"a", "f", "t", "e", "r">> >>

C5_Witness ==
    /\ pc = "done"
    /\ input = <<"a", " ", "|", "|", " ", "b">>
    /\ Len(tokens) = 3
    /\ tokens[2].Type = "PIPELINE_TOKEN"

\* s is a double-quoted string whose body has no double quote and no
\* backslash.
IsQuoted(s) ==
    /\ Len(s) >= 2
    /\ s[1] = "\""
    /\ Last(s) = "\""
    /\ \A i \in 2..(Len(s) - 1) : s[i] \notin {"\"", "\\"}

\* C6: for w without double quote and backslash, Split of w in double
\* quotes is exactly one Word token whose value is w.
C6_QuotingRoundTrip ==
    (strs.called /\ IsQuoted(input)) =>
        /\ strs.val = << SubSeq(input, 2, Len(input) - 1) >>
        /\ Len(tokens) = 1
        /\ tokens[1].Type = "WORD_TOKEN"

C6_Witness ==
    /\ strs.called
    /\ IsQuoted(input)
    /\ strs.val = << <<" ", "'", "|">> >>

\* C7: Split of a backslash followed by one character c is the single word
\* c, for every c and so for every ordinary one: the backslash is dropped
\* from the value and kept in rawValue, and the token ends in InWord state.
C7_Escaping ==
    (strs.called /\ Len(input) = 2 /\ input[1] = "\\") =>
        /\ strs.val = << <<input[2]>> >>
        /\ Len(tokens) = 1
        /\ tokens[1].Type = "WORD_TOKEN"
        /\ tokens[1].RawValue = input
        /\ tokens[1].State = "IN_WORD_STATE"

C7_Witness ==
    /\ strs.called
    /\ input = <<"\\", "a">>
    /\ strs.val = << <<"a">> >>

\* The index of the last PipelineOperator token of t, 0 when there is none.
LastOperator(t) ==
    LET ops == {i \in 1..Len(t) : t[i].Type = "PIPELINE_TOKEN"}
    IN IF ops = {} THEN 0 ELSE CHOOSE i \in ops : \A j \in ops : j <= i

\* C8: CurrentPipeline returns the tokens after the last PipelineOperator
\* token in their order, the whole sequence when there is no such token,
\* and never a PipelineOperator token; for "a | b | c" the values are [c].
C8_CurrentPipeline ==
    current.called =>
        /\ current.val = SubSeq(tokens, LastOperator(tokens) + 1, Len(tokens))
        /\ LastOperator(tokens) = 0 => current.val = tokens
        /\ \A i \in 1..Len(current.val) : current.val[i].Type # "PIPELINE_TOKEN"
        /\ input = <<"a", " ", "|", " ", "b", " ", "|", " ", "c">> =>
              Strings(current.val) = << <<"c">> >>

C8_Witness ==
    /\ current.called
    /\ input = <<"a", " ", "|", " ", "b", " ", "|", " ", "c">>
    /\ Len(tokens) = 5
    /\ Len(current.val) = 1

\* C9: the rawValue of every token the Tokenizer returns is the substring
\* of the input that starts at the token's startOffset.
C9_RawIsSourceSubstring ==
    \A i \in 1..Len(emitted) :
        LET tok == emitted[i]
        IN /\ tok.Index + Len(tok.RawValue) <= Len(input)
           /\ tok.RawValue
                = SubSeq(input, tok.Index + 1, tok.Index + Len(tok.RawValue))

\* C10: lexing the rawValue of a returned token alone gives, as first
\* token, a token of the same kind and value.
C10_RelexReproduces ==
    \A i \in 1..Len(emitted) :
        LET n == TokenizerNext(NewTokenizer(emitted[i].RawValue))
        IN /\ n.hasToken
           /\ n.err = "nil"
           /\ n.token.Type = emitted[i].Type
           /\ n.token.Value = emitted[i].Value
\* The mode a reader of shell syntax is in before the i-th character of s.
RECURSIVE ModeAt(_, _)
ModeAt(s, i) ==
    IF i = 1 THEN "start" ELSE NextMode(ModeAt(s, i - 1), s[i - 1], TRUE)

\* The value a word's source text stands for: quote characters and escape
\* characters that act as such are dropped, every other character is kept.
RECURSIVE DecodeFrom(_, _, _, _)
DecodeFrom(s, i, mode, acc) ==
    IF i > Len(s) THEN acc
    ELSE LET ch == s[i]
             kept == CASE mode \in {"start", "word"} ->
                            ch \notin (escapingQuoteRunes \cup nonEscapingQuoteRunes
                                          \cup escapeRunes)
                       [] mode = "dquote" ->
                            ch \notin (escapingQuoteRunes \cup escapeRunes)
                       [] mode = "squote" -> ch \notin nonEscapingQuoteRunes
                       [] OTHER -> TRUE
         IN DecodeFrom(s, i + 1, NextMode(mode, ch, FALSE),
                       IF kept THEN Append(acc, ch) ELSE acc)

Decode(s) == DecodeFrom(s, 1, "start", <<>>)

\* The tokens of t with every startOffset moved by k.
Shift(t, k) == [i \in 1..Len(t) |-> [t[i] EXCEPT !.Index = @ + k]]

\* C11: Split of an unterminated double-quoted w (no double quote, no
\* backslash in w) does not fail and is one Word token with value w and
\* exitState QuotingEscaping; an unterminated single quote ends in Quoting;
\* a trailing backslash ends in Escaping, or EscapingInQuote inside double
\* quotes, with the value built so far.
C11_UnterminatedTolerance ==
    pc = "done" =>
      /\ err = "nil"
      /\ (/\ input # <<>>
          /\ Head(input) = "\""
          /\ \A i \in 2..Len(input) : input[i] \notin {"\"", "\\"}) =>
             /\ Len(tokens) = 1
             /\ tokens[1].Type = "WORD_TOKEN"
             /\ tokens[1].Value = Tail(input)
             /\ tokens[1].State = "QUOTING_ESCAPING_STATE"
      /\ (/\ input # <<>>
          /\ Head(input) = "'"
          /\ \A i \in 2..Len(input) : input[i] # "'") =>
             /\ Len(tokens) = 1
             /\ tokens[1].Type = "WORD_TOKEN"
             /\ tokens[1].Value = Tail(input)
             /\ tokens[1].State = "QUOTING_STATE"
      /\ (input # <<>> /\ Last(input) = "\\"
            /\ ModeAt(input, Len(input)) \in {"start", "word", "dquote"}) =>
             /\ tokens # <<>>
             /\ Last(tokens).Type = "WORD_TOKEN"
             /\ Last(tokens).State =
                   IF ModeAt(input, Len(input)) = "dquote"
                   THEN "ESCAPING_QUOTED_STATE" ELSE "ESCAPING_STATE"
             /\ Last(tokens).Value = Decode(Last(tokens).RawValue)
             /\ Last(Last(tokens).RawValue) = "\\"

C11_Witness ==
    /\ pc = "done"
    /\ input = <<"\"", "a", "b", "c">>
    /\ Strings(tokens) = << <<"a", "b", "c">> >>
    /\ tokens[1].State = "QUOTING_ESCAPING_STATE"

\* The positions of s at which a comment starts: a comment character met
\* at the start of a token.
CommentStarts(s) ==
    {i \in 1..Len(s) : s[i] \in commentRunes /\ ModeAt(s, i) = "start"}

\* The position of the first line feed of s after position i, Len(s) + 1
\* when there is none.
CommentEnd(s, i) ==
    LET lf == {j \in (i + 1)..Len(s) : s[j] = "\n"}
    IN IF lf = {} THEN Len(s) + 1
       ELSE CHOOSE j \in lf : \A k \in lf : j <= k

IsLexerToken(tok) == tok.Type \in {"WORD_TOKEN", "PIPELINE_TOKEN"}

\* C12: every '#' met at the start of a token gives one Comment token whose
\* value is the text after the '#' up to, not including, the next line feed
\* or the end of the input, whitespace other than the line feed included;
\* a comment closed by a line feed leaves the machine in Start (one closed
\* by end-of-input leaves it in Comment); Split returns no token for a
\* comment and lexes the text after the line feed as it lexes that text
\* alone: Split of "a # com\nb" has the values a, b.
C12_Comments ==
    /\ \A k \in 1..Len(emitted) :
          emitted[k].Type = "COMMENT_TOKEN" =>
             LET i == emitted[k].Index + 1
                 e == CommentEnd(input, i)
             IN /\ i \in CommentStarts(input)
                /\ emitted[k].Value = SubSeq(input, i + 1, e - 1)
                /\ emitted[k].State =
                      IF e <= Len(input) THEN "START_STATE" ELSE "COMMENT_STATE"
                /\ (pc = "done" /\ e <= Len(input)) =>
                      SelectSeq(SubSeq(emitted, k + 1, Len(emitted)), IsLexerToken)
                         = Shift(Split(SubSeq(input, e + 1, Len(input))).tokens, e)
    /\ pc = "done" =>
          /\ {emitted[k].Index + 1 :
                 k \in {j \in 1..Len(emitted) : emitted[j].Type = "COMMENT_TOKEN"}}
                = CommentStarts(input)
          /\ tokens = SelectSeq(emitted, IsLexerToken)
    /\ (pc = "done"
          /\ input = <<"a", " ", "#", " ", "c", "o", "m", "\n", "b">>) =>
          Strings(tokens) = << <<"a">>, <<"b">> >>

C12_Witness ==
    /\ pc = "done"
    /\ input = <<"a", " ", "#", " ", "c", "o", "m", "\n", "b">>
    /\ Len(emitted) = 3
    /\ emitted[2].Value = <<" ", "c", "o", "m">>
    /\ Len(tokens) = 2
\* C16: a '#' read while in a word (after an ordinary character, a closing
\* quote or an escaped character) opens no comment and is appended to the
\* word: a Word token spans it and keeps it in its value, and seven#eight is
\* one Word token with no Comment token.
C16_CommentInsideWord ==
    /\ pc = "done" =>
          \A i \in {j \in 1..Len(input) :
                       input[j] \in commentRunes /\ ModeAt(input, j) = "word"} :
             /\ \A k \in 1..Len(emitted) :
                   emitted[k].Type = "COMMENT_TOKEN" => emitted[k].Index # i - 1
             /\ \E k \in 1..Len(tokens) :
                   /\ tokens[k].Type = "WORD_TOKEN"
                   /\ tokens[k].Index < i
                   /\ i <= tokens[k].Index + Len(tokens[k].RawValue)
                   /\ tokens[k].RawValue[i - tokens[k].Index] = "#"
                   /\ tokens[k].Value = Decode(tokens[k].RawValue)
                   /\ \E m \in 1..Len(tokens[k].Value) : tokens[k].Value[m] = "#"
    /\ (pc = "done"
          /\ input = <<"s", "e", "v", "e", "n", "#", "e", "i", "g", "h", "t">>) =>
          /\ Len(emitted) = 1
          /\ emitted[1].Type = "WORD_TOKEN"
          /\ emitted[1].Value = input

C16_Witness ==
    /\ pc = "done"
    /\ input = <<"\"", "a", "\"", "#">>
    /\ Strings(tokens) = << <<"a", "#">> >>
    /\ Len(emitted) = 1

\* C17: inside single quotes every character but the single quote is
\* appended verbatim, backslash, double quote, '#', whitespace and pipeline
\* characters included, and the next single quote closes the quoted part
\* and returns to InWord: Split of 'w' is the one Word w, and 'twelve\'
\* has the value twelve\ .
C17_SingleQuotes ==
    (/\ pc = "done"
     /\ Len(input) >= 2
     /\ Head(input) = "'"
     /\ Last(input) = "'"
     /\ \A i \in 2..(Len(input) - 1) : input[i] # "'") =>
        emitted = << [Type |-> "WORD_TOKEN",
                      Value |-> SubSeq(input, 2, Len(input) - 1),
                      RawValue |-> input,
                      Index |-> 0,
                      State |-> "IN_WORD_STATE"] >>

C17_Witness ==
    /\ pc = "done"
    /\ input = <<"'", "t", "w", "e", "l", "v", "e", "\\", "'">>
    /\ Strings(tokens) = << <<"t", "w", "e", "l", "v", "e", "\\">> >>

\* No double quote and no backslash in s from position a to position b.
NoQuoteOrEscape(s, a, b) == \A i \in a..b : s[i] \notin {"\"", "\\"}

\* C18: inside double quotes a backslash followed by any character c
\* appends c, drops the backslash and goes on in the double-quote body: for
\* x, y without double quote and backslash, "x\cy" has the value xcy and
\* ends in InWord, the unterminated "x\cy has the same value and ends in
\* QuotingEscaping, and "five \"six\"" has the value five "six".
C18_EscapeInDoubleQuotes ==
    /\ pc = "done" =>
          \A j \in 2..(Len(input) - 1) :
             (/\ Head(input) = "\""
              /\ input[j] = "\\"
              /\ NoQuoteOrEscape(input, 2, j - 1)) =>
                /\ (j + 2 <= Len(input) /\ Last(input) = "\""
                      /\ NoQuoteOrEscape(input, j + 2, Len(input) - 1)) =>
                      /\ Len(tokens) = 1
                      /\ tokens[1].Value = SubSeq(input, 2, j - 1)
                                              \o <<input[j + 1]>>
                                              \o SubSeq(input, j + 2, Len(input) - 1)
                      /\ tokens[1].State = "IN_WORD_STATE"
                /\ NoQuoteOrEscape(input, j + 2, Len(input)) =>
                      /\ Len(tokens) = 1
                      /\ tokens[1].Value = SubSeq(input, 2, j - 1)
                                              \o <<input[j + 1]>>
                                              \o SubSeq(input, j + 2, Len(input))
                      /\ tokens[1].State = "QUOTING_ESCAPING_STATE"
    /\ (pc = "done"
          /\ input = <<"\"", "f", "i", "v", "e", " ", "\\", "\"",
                       "s", "i", "x", "\\", "\"", "\"">>) =>
          Strings(tokens)
             = << <<"f", "i", "v", "e", " ", "\"", "s", "i", "x", "\"">> >>

C18_Witness ==
    /\ pc = "done"
    /\ input = <<"\"", "\\", "a", "\"">>
    /\ Strings(tokens) = << <<"a">> >>
    /\ tokens[1].State = "IN_WORD_STATE"

\* The positions of s that hold an unquoted, unescaped whitespace or
\* pipeline-operator character outside comments.
BareDelimiters(s) ==
    {i \in 1..Len(s) : /\ ModeAt(s, i) \in {"start", "word"}
                       /\ s[i] \in (spaceRunes \cup pipelineRunes)}

\* The first position after i in the set D, n + 1 when there is none.
FirstAfter(D, i, n) ==
    LET later == {j \in D : j > i}
    IN IF later = {} THEN n + 1
       ELSE CHOOSE j \in later : \A k \in later : j <= k

\* C19: a Word token runs from its start to the next unquoted, unescaped
\* whitespace or pipeline-operator character or to the end of the input,
\* through every quote and escape: its rawValue is that whole stretch and
\* its value the concatenation of the decoded segments; the delimiter is not
\* part of the token and is read again by the next scan.
C19_WordBoundaries ==
    \A k \in 1..Len(emitted) :
       (emitted[k].Type = "WORD_TOKEN" /\ ~IsSynthetic(emitted[k])) =>
          LET tok == emitted[k]
              e == FirstAfter(BareDelimiters(input), tok.Index, Len(input))
          IN /\ tok.RawValue = SubSeq(input, tok.Index + 1, e - 1)
             /\ tok.Value = Decode(tok.RawValue)
             /\ k < Len(emitted) =>
                   /\ emitted[k + 1].Index >= e - 1
                   /\ (e <= Len(input) /\ input[e] \in pipelineRunes) =>
                         /\ emitted[k + 1].Type = "PIPELINE_TOKEN"
                         /\ emitted[k + 1].Index = e - 1
                         /\ Head(emitted[k + 1].Value) = input[e]
             /\ (pc = "done" /\ e <= Len(input)) => k < Len(emitted)

C19_Witness ==
    /\ pc = "done"
    /\ input = <<"\"", "a", " ", "b", "\"", "'", "c", "\\", "'", "\\", "#",
                 "#", " ", ";">>
    /\ Len(tokens) = 3
    /\ tokens[1].Value = <<"a", " ", "b", "c", "\\", "#", "#">>
    /\ tokens[2].Value = <<";">>

\* The input positions of the raw span of a token.
Span(tok) == (tok.Index + 1)..(tok.Index + Len(tok.RawValue))

\* C20: in the tokens the Tokenizer returns, startOffset is strictly
\* increasing, the raw spans of successive tokens do not overlap, and once
\* the input is read to its end every code point outside every span is
\* whitespace.
C20_OffsetsAndSpans ==
    /\ \A i \in 1..Len(emitted) : \A j \in 1..Len(emitted) :
          i < j => /\ emitted[i].Index < emitted[j].Index
                   /\ emitted[i].Index + Len(emitted[i].RawValue)
                         <= emitted[j].Index
    /\ pc = "done" =>
          \A p \in 1..Len(input) :
             (\A k \in 1..Len(emitted) : p \notin Span(emitted[k])) =>
                input[p] \in spaceRunes

C20_Witness ==
    /\ pc = "done"
    /\ Len(emitted) = 3
    /\ emitted[2].Type = "PIPELINE_TOKEN"
    /\ emitted[3].Type = "WORD_TOKEN"
    /\ emitted[3].Index = 3
    /\ input[2] \in spaceRunes
\* No pipeline-operator and no comment character in any word of ws.
NoPunctuation(ws) ==
    \A k \in 1..Len(ws) : \A i \in 1..Len(ws[k]) :
        ws[k][i] \notin (pipelineRunes \cup commentRunes)

\* C13 as stated: for every sequence of words without pipeline and comment
\* characters, the Word tokens of Split(Join(words)) have exactly the words
\* as values, and Split adds no synthetic token.
C13_Original ==
    (pc = "done" /\ words.given /\ NoPunctuation(words.val)) =>
        /\ err = "nil"
        /\ Strings(Words(tokens)) = words.val
        /\ \A k \in 1..Len(tokens) : ~IsSynthetic(tokens[k])

\* C13 amended: for every sequence of non-empty words without pipeline and
\* comment characters, the Word tokens of Split(Join(words)) have exactly
\* the words as values; Split returns no other token, and no synthetic one.
C13_JoinSplitRoundTrip ==
    (/\ pc = "done"
     /\ words.given
     /\ NoPunctuation(words.val)
     /\ \A k \in 1..Len(words.val) : words.val[k] # <<>>) =>
        /\ err = "nil"
        /\ Strings(Words(tokens)) = words.val
        /\ Len(tokens) = Len(words.val)
        /\ \A k \in 1..Len(tokens) : ~IsSynthetic(tokens[k])

C13_Witness ==
    /\ pc = "done"
    /\ words.given
    /\ words.style = "escape"
    /\ words.val = << <<"a", " ">>, <<"\"">> >>
    /\ Strings(tokens) = words.val
UnfinishedStates ==
    {"ESCAPING_STATE", "ESCAPING_QUOTED_STATE", "QUOTING_ESCAPING_STATE",
     "QUOTING_STATE"}

\* The exit state of a token that ends where a reader of shell syntax is
\* in the given mode.
StateOfMode(mode) ==
    CASE mode = "escape" -> "ESCAPING_STATE"
      [] mode = "descape" -> "ESCAPING_QUOTED_STATE"
      [] mode = "dquote" -> "QUOTING_ESCAPING_STATE"
      [] mode = "squote" -> "QUOTING_STATE"
      [] OTHER -> "none"

\* C21: in the result of Split every Word token that is not last has
\* exitState InWord and every PipelineOperator token has exitState
\* PipelineOperator; Escaping, EscapingInQuote, QuotingEscaping and Quoting
\* occur only on the last token and only when the input ends inside the
\* unfinished escape or quote of that kind; a token with exitState Start is
\* the synthetic empty word at the end of the input.
C21_ExitStates ==
    pc = "done" =>
        \A i \in 1..Len(tokens) :
            LET tok == tokens[i]
            IN /\ tok.State \in UnfinishedStates
                                  \cup {"IN_WORD_STATE", "PIPELINE_STATE", "START_STATE"}
               /\ (tok.Type = "WORD_TOKEN" /\ i < Len(tokens)) =>
                     tok.State = "IN_WORD_STATE"
               /\ tok.Type = "PIPELINE_TOKEN" => tok.State = "PIPELINE_STATE"
               /\ tok.State \in UnfinishedStates =>
                     /\ i = Len(tokens)
                     /\ tok.State = StateOfMode(ModeAt(input, Len(input) + 1))
               /\ tok.State = "START_STATE" =>
                     /\ i = Len(tokens)
                     /\ tok.Type = "WORD_TOKEN"
                     /\ tok.Value = <<>>
                     /\ tok.RawValue = <<>>
                     /\ tok.Index = Len(input)

C21_Witness ==
    /\ pc = "done"
    /\ input = <<"a", "|", "\"", "b">>
    /\ Len(tokens) = 3
    /\ tokens[1].State = "IN_WORD_STATE"
    /\ tokens[2].State = "PIPELINE_STATE"
    /\ tokens[3].State = "QUOTING_ESCAPING_STATE"
\* The empty word the Start state returns at the end of the input.
IsSyntheticWord(tok) == tok.Type = "WORD_TOKEN" /\ tok.State = "START_STATE"

\* The last Tokenizer.Next call returned a token after pushing a delimiter
\* back, and the delimiter is the next code point to be read.
DelimiterPushedBack ==
    /\ pc = "split"
    /\ lastCall.made /\ lastCall.hasToken
    /\ Last(emitted).State \in {"IN_WORD_STATE", "PIPELINE_STATE"}
    /\ tokenizer.r < Len(input)

\* Every Tokenizer.Next call that returns a token moves the reader forward,
\* the synthetic empty word excepted.
CallConsumes ==
    (pc = "split" /\ lastCall'.hasToken) =>
        \/ tokenizer'.r > tokenizer.r
        \/ IsSyntheticWord(Last(emitted'))

\* What holds in every state of a Split call for its termination.
TerminationInv ==
    /\ tokenizer.r = tokenizer.index
    /\ (pc = "split" /\ emitted # <<>> /\ IsSyntheticWord(Last(emitted))) =>
          TokenizerNext(tokenizer).err = "EOF"
    /\ DelimiterPushedBack =>
          LET n == ScanIteration([t |-> [tokenizer EXCEPT !.state = "START_STATE"],
                                  token |-> EmptyToken,
                                  previousState |-> tokenizer.state,
                                  consumed |-> 0,
                                  ret |-> FALSE, hasToken |-> FALSE,
                                  err |-> "nil"])
          IN /\ n.t.r = tokenizer.r + 1
             /\ TokenizerNext(tokenizer).t.r > tokenizer.r
    /\ Len(emitted) <= Len(input) + 1
    /\ Len(tokens) <= Len(input) + 1

\* C22: Split terminates: every Tokenizer.Next call that returns a token
\* has consumed at least one code point net of pushback, except the
\* synthetic empty word, after which the next call reports the end of the
\* input; a pushed-back delimiter is consumed by the Start state of the
\* next call, which does not push back; a running Split eventually returns;
\* and an input of n code points gives at most n + 1 tokens.
C22_SplitTerminates ==
    /\ []TerminationInv
    /\ [][CallConsumes]_vars
    /\ (pc = "split") ~> (pc = "done")

C22_Witness ==
    /\ pc = "done"
    /\ input = <<"a", " ", "|">>
    /\ Len(emitted) = 3
    /\ Len(tokens) = Len(input)
    /\ IsSyntheticWord(Last(tokens))
    /\ ~lastCall.hasToken
    /\ lastCall.from = Len(input)
====
